---- MODULE Spec2Model ----
(***************************************************************************)
(* Verification model of django-tables: the in-memory sort (memory.py),    *)
(* the in-memory table (memory.py), the model-backed table and its row     *)
(* binder (models.py) and the column definition (columns.py).              *)
(*                                                                         *)
(* Python strings are sequences of one-character strings, so that          *)
(* startswith('-'), o[1:], split(',') and split('__') are computed and not *)
(* assumed.  Python values are tagged records [tag, val]; val is a         *)
(* sequence of integers (the number, or the character codes of a string).  *)
(* Comparison follows Python 2's cmp, the language sort_table is written   *)
(* in: None is smaller than everything, numbers are smaller than strings.  *)
(***************************************************************************)
EXTENDS Integers, Sequences, FiniteSets, TLC

VARIABLES
    data,        \* the caller's source: a list of rows (dicts) or of model records
    order_by,    \* the ordering in force: a tuple of tokens such as "-population"
    snapshot,    \* the list sort_table works on / the table's snapshot
    pc,          \* position of the driver: "call", "done", "table", "cell"
    request,     \* the value last assigned to table.order_by, as the caller gave it
    cell,        \* the outcome of the last cell read (row[name])
    registry,    \* the table class the metaclass built: declared_columns, base_columns
    column,      \* the Column constructions made so far
    cache,       \* the table's caches: the bound columns, the rows, the length
    queries      \* the calls issued on the queryset: count() and iteration

vars == <<data, order_by, snapshot, pc, request, cell,
          registry, column, cache, queries>>

----------------------------------------------------------------------------
(* Bounds of the model *)

MaxRows == 3
MaxKeys == 2
MaxTokens == 2

----------------------------------------------------------------------------
(* Python strings *)

\* the characters the model uses, in ASCII order
Chars == <<",", "-", ".", "2", "A", "C", "D", "E", "S", "_", "a", "b", "c", "d", "e", "f", "g", "h", "i", "j", "k",
           "l", "m", "n", "o", "p", "q", "r", "s", "t", "u", "v", "w", "x", "y", "z">>

Ord(c) == CHOOSE i \in 1..Len(Chars) : Chars[i] = c

Tail_n(s, n) == SubSeq(s, n + 1, Len(s))

\* o.startswith('-')
startswith(o, c) == Len(o) >= 1 /\ o[1] = c

s_id         == <<"i", "d">>
s_name       == <<"n", "a", "m", "e">>
s_population == <<"p", "o", "p", "u", "l", "a", "t", "i", "o", "n">>
s_system     == <<"s", "y", "s", "t", "e", "m">>
s_republic   == <<"r", "e", "p", "u", "b", "l", "i", "c">>
s_monarchy   == <<"m", "o", "n", "a", "r", "c", "h", "y">>

Minus(name) == <<"-">> \o name

----------------------------------------------------------------------------
(* Python values *)

None      == [tag |-> "None", val |-> <<>>]
IntV(n)   == [tag |-> "int", val |-> <<n>>]
BoolV(b)  == [tag |-> "bool", val |-> <<IF b THEN 1 ELSE 0>>]
StrV(s)   == [tag |-> "str", val |-> [i \in 1..Len(s) |-> Ord(s[i])]]
\* a callable dict value or a method: called, it returns ret
FnV(ret)  == [tag |-> "callable", val |-> <<>>, ret |-> ret]

callable(v) == v.tag = "callable"

\* lhs(x), current(): the call of a callable value
Call(v, arg) == v.ret

\* Python 2 orders values of different types by type: None first, then
\* numbers, then strings
TypeRank(v) == CASE v.tag = "None" -> 0
                 [] v.tag = "int"  -> 1
                 [] v.tag = "bool" -> 1
                 [] OTHER          -> 2

RECURSIVE SeqCmp(_, _)
SeqCmp(a, b) ==
    IF a = <<>> /\ b = <<>> THEN 0
    ELSE IF a = <<>> THEN -1
    ELSE IF b = <<>> THEN 1
    ELSE IF a[1] < b[1] THEN -1
    ELSE IF a[1] > b[1] THEN 1
    ELSE SeqCmp(Tail(a), Tail(b))

\* the builtin cmp(a, b)
cmp(a, b) ==
    IF TypeRank(a) # TypeRank(b)
    THEN (IF TypeRank(a) < TypeRank(b) THEN -1 ELSE 1)
    ELSE SeqCmp(a.val, b.val)

\* dict.get(name): None for a missing key
get(x, name) == IF name \in DOMAIN x THEN x[name] ELSE None

----------------------------------------------------------------------------
(* memory.py: sort_table *)

\* lines 23-28: one (name, reverse) instruction per token
RECURSIVE instructions(_)
instructions(ob) ==
    IF ob = <<>> THEN <<>>
    ELSE LET o == Head(ob) IN
         <<IF startswith(o, "-")
           THEN [name |-> Tail_n(o, 1), reverse |-> TRUE]
           ELSE [name |-> o, reverse |-> FALSE]>> \o instructions(Tail(ob))

\* (callable(lhs) and [lhs(x)] or [lhs])[0]
Resolved(v, row) == IF callable(v) THEN Call(v, row) ELSE v

\* _cmp with a slip in its last line: rows equal on every key compare as
\* "smaller" instead of "equal"
RECURSIVE _cmp_ties_smaller(_, _, _)
_cmp_ties_smaller(ins, x, y) ==
    IF ins = <<>> THEN -1
    ELSE LET i   == Head(ins)
             res == cmp(Resolved(get(x, i.name), x), Resolved(get(y, i.name), y))
         IN IF res # 0
            THEN (IF i.reverse THEN -res ELSE res)
            ELSE _cmp_ties_smaller(Tail(ins), x, y)

\* _cmp with a slip in line 21: the reverse flag of an instruction is ignored
RECURSIVE _cmp_no_reverse(_, _, _)
_cmp_no_reverse(ins, x, y) ==
    IF ins = <<>> THEN 0
    ELSE LET i   == Head(ins)
             res == cmp(Resolved(get(x, i.name), x), Resolved(get(y, i.name), y))
         IN IF res # 0
            THEN res
            ELSE _cmp_no_reverse(Tail(ins), x, y)

\* lines 15-22
RECURSIVE _cmp(_, _, _)
_cmp(ins, x, y) ==
    IF ins = <<>> THEN 0
    ELSE LET i   == Head(ins)
             res == cmp(Resolved(get(x, i.name), x), Resolved(get(y, i.name), y))
         IN IF res # 0
            THEN (IF i.reverse THEN -res ELSE res)
            ELSE _cmp(Tail(ins), x, y)

\* list.sort(cmp=...) on a short list is a binary insertion sort: each
\* element is inserted behind the last element of the sorted prefix that
\* is not greater than it
RECURSIVE InsertSorted(_, _, _)
InsertSorted(ins, sorted, x) ==
    IF sorted = <<>> THEN <<x>>
    ELSE IF _cmp(ins, x, Head(sorted)) < 0
         THEN <<x>> \o sorted
         ELSE <<Head(sorted)>> \o InsertSorted(ins, Tail(sorted), x)

RECURSIVE ListSort(_, _, _)
ListSort(ins, sorted, rest) ==
    IF rest = <<>> THEN sorted
    ELSE ListSort(ins, InsertSorted(ins, sorted, Head(rest)), Tail(rest))

\* lines 9-29: the list as sort_table leaves it
sort_table(rows, ob) == ListSort(instructions(ob), <<>>, rows)

\* markers of "nothing yet"
NoRequest  == [form |-> "unset", value |-> <<>>]
NoCell     == [read |-> FALSE]
NoRegistry == [built |-> FALSE]
NoColumn   == [constructed |-> <<>>, creation_counter |-> 0,
               last |-> [called |-> FALSE]]
NoCache    == [_columns |-> 0, _length |-> -1, ids |-> 0, builds |-> 0,
               op |-> "none", read |-> FALSE, out |-> <<>>]
NoQueries  == [count |-> 0, iter |-> 0, queryset |-> FALSE, snapshot |-> FALSE]
NoSnapshot == [built |-> FALSE, rows |-> <<>>, ordering |-> <<>>, error |-> ""]

----------------------------------------------------------------------------
(* The inputs of sort_table: lists of dicts and ordering requests *)

row(i, p, s) == (s_id :> IntV(i)) @@ (s_population :> p) @@ (s_system :> s)

PopValues    == {IntV(6), IntV(30)}
SystemValues == {None, StrV(s_republic), FnV(StrV(s_monarchy))}

RowLists ==
    UNION {{[i \in 1..n |-> row(i, f[i][1], f[i][2])] :
                f \in [1..n -> PopValues \X SystemValues]} : n \in 0..MaxRows}

\* the four rows of the multi-key example
ExampleRows == <<row(1, IntV(30), None), row(2, IntV(6), StrV(s_republic)),
                 row(3, IntV(64), StrV(s_republic)), row(4, IntV(81), None)>>

SortKeys   == {s_population, s_system}
SortTokens == SortKeys \cup {Minus(k) : k \in SortKeys}
OrderBys   == UNION {[1..n -> SortTokens] : n \in 0..MaxKeys}

SortInit ==
    /\ data \in RowLists \cup {ExampleRows}
    /\ order_by \in OrderBys
    /\ snapshot = data
    /\ pc = "call"
    /\ request = NoRequest
    /\ cell = NoCell
    /\ registry = NoRegistry
    /\ column = NoColumn
    /\ cache = NoCache
    /\ queries = NoQueries

\* sort_table(snapshot, order_by)
SortTable ==
    /\ pc = "call"
    /\ snapshot' = sort_table(snapshot, order_by)
    /\ pc' = "done"
    /\ UNCHANGED <<data, order_by, request, cell>>
    /\ UNCHANGED <<registry, column, cache, queries>>

SortNext == SortTable

SortSpec == SortInit /\ [][SortNext]_vars

----------------------------------------------------------------------------
(* Properties of sort_table *)

Reverse(s) == [i \in 1..Len(s) |-> s[Len(s) + 1 - i]]

\* the name a token orders by, and whether the token carries the '-' prefix
TokenName(o)     == IF Len(o) >= 1 /\ o[1] = "-" THEN SubSeq(o, 2, Len(o)) ELSE o
TokenPrefixed(o) == Len(o) >= 1 /\ o[1] = "-"

\* the value a row offers on a key, a callable value being called
KeyValue(x, name) == Resolved(get(x, name), x)

EqualOnKeys(x, y, ob) ==
    \A n \in 1..Len(ob) : KeyValue(x, TokenName(ob[n])) = KeyValue(y, TokenName(ob[n]))

\* position of a row in a list of rows with distinct ids
Pos(rows, x) == CHOOSE i \in 1..Len(rows) : rows[i] = x

IsPermutation(a, b) ==
    /\ Len(a) = Len(b)
    /\ \A i \in 1..Len(a) : \E j \in 1..Len(b) : b[j] = a[i]

Ids(rows) == [i \in 1..Len(rows) |-> rows[i][s_id].val[1]]

\* C1: sort_table is stable: the result is a permutation of the input and two
\* rows that are equal on every requested key keep the relative order they
\* had in the input.
StableSort ==
    pc = "done" =>
        /\ IsPermutation(snapshot, data)
        /\ \A i, j \in 1..Len(snapshot) :
              (i < j /\ EqualOnKeys(snapshot[i], snapshot[j], order_by))
                  => Pos(data, snapshot[i]) < Pos(data, snapshot[j])

\* C1 witness: a sort by at least one key that moved rows and left two rows
\* that tie on every key
StableSortWitness ==
    /\ pc = "done"
    /\ order_by # <<>>
    /\ snapshot # data
    /\ \E i, j \in 1..Len(snapshot) :
          i < j /\ EqualOnKeys(snapshot[i], snapshot[j], order_by)

\* the first key of the request on which two rows differ, 0 if there is none
FirstDiffering(x, y, ob) ==
    LET D == {n \in 1..Len(ob) :
                 cmp(KeyValue(x, TokenName(ob[n])), KeyValue(y, TokenName(ob[n]))) # 0}
    IN IF D = {} THEN 0 ELSE CHOOSE n \in D : \A m \in D : n <= m

\* C2: in the result of a multi-key sort, for any two rows the first key of
\* the request on which they differ decides their order: ascending for an
\* unprefixed token, descending for a '-' token.
KeyPriority ==
    pc = "done" =>
        \A i, j \in 1..Len(snapshot) :
            LET n == FirstDiffering(snapshot[i], snapshot[j], order_by) IN
            (i < j /\ n # 0) =>
                LET c == cmp(KeyValue(snapshot[i], TokenName(order_by[n])),
                             KeyValue(snapshot[j], TokenName(order_by[n])))
                IN IF TokenPrefixed(order_by[n]) THEN c > 0 ELSE c < 0

\* C2 witness: a two-key sort with a descending key in which two rows tie
\* on the first key and are ordered by the second
KeyPriorityWitness ==
    /\ pc = "done"
    /\ Len(order_by) = 2
    /\ TokenName(order_by[1]) # TokenName(order_by[2])
    /\ TokenPrefixed(order_by[2])
    /\ snapshot # data
    /\ \E i, j \in 1..Len(snapshot) :
          i < j /\ FirstDiffering(snapshot[i], snapshot[j], order_by) = 2

\* the longest prefix of rows whose value on the key compares equal to the
\* first row's
RECURSIVE RunLen(_, _, _)
RunLen(rows, name, n) ==
    IF n < Len(rows) /\ cmp(KeyValue(rows[n + 1], name), KeyValue(rows[1], name)) = 0
    THEN RunLen(rows, name, n + 1)
    ELSE n

\* the groups of rows with equal key in reverse order, each group kept as it is
RECURSIVE GroupReverse(_, _)
GroupReverse(rows, name) ==
    IF rows = <<>> THEN <<>>
    ELSE LET r == RunLen(rows, name, 1) IN
         GroupReverse(SubSeq(rows, r + 1, Len(rows)), name) \o SubSeq(rows, 1, r)

SingleAscending == pc = "done" /\ Len(order_by) = 1 /\ ~TokenPrefixed(order_by[1])

\* C3 as stated: sorting by '-k' gives exactly the reverse of sorting by 'k',
\* rows with equal values on k included.
DescendingIsExactReverse ==
    SingleAscending =>
        sort_table(data, <<Minus(order_by[1])>>) = Reverse(snapshot)

\* C3 amended: sorting by '-k' reverses the order of the groups of rows with
\* equal value on k and keeps the input order inside each group; it is the
\* exact reverse of sorting by 'k' when no two rows tie on k.
DescendingReversesAscending ==
    SingleAscending =>
        /\ sort_table(data, <<Minus(order_by[1])>>) = GroupReverse(snapshot, order_by[1])
        /\ (\A i, j \in 1..Len(data) :
                i # j => ~EqualOnKeys(data[i], data[j], order_by))
              => sort_table(data, <<Minus(order_by[1])>>) = Reverse(snapshot)

\* C3 witness: a single-key ascending sort of rows of which two tie and two
\* differ on the key
DescendingReversesAscendingWitness ==
    /\ SingleAscending
    /\ \E i, j \in 1..Len(data) : i # j /\ EqualOnKeys(data[i], data[j], order_by)
    /\ \E i, j \in 1..Len(data) : ~EqualOnKeys(data[i], data[j], order_by)

ExampleSorted ==
    pc = "done" /\ data = ExampleRows /\ order_by = <<s_system, Minus(s_population)>>

\* C4 as stated: the four example rows ordered by ("system", "-population")
\* come out in id order [2,4,3,1].
ExampleOrderAsStated == ExampleSorted => Ids(snapshot) = <<2, 4, 3, 1>>

\* C4 amended: the four example rows ordered by ("system", "-population")
\* come out in id order [4,1,3,2]: None sorts before the defined values on
\* the primary key, population descends inside each tie group.
ExampleOrder == ExampleSorted => Ids(snapshot) = <<4, 1, 3, 2>>

\* C4 witness: the example rows have been sorted by ("system", "-population")
ExampleOrderWitness == ExampleSorted /\ snapshot # data

----------------------------------------------------------------------------
(* Python strings, continued *)

\* s.split(sep) for a non-empty separator
RECURSIVE SplitFrom(_, _, _)
SplitFrom(s, sep, cur) ==
    IF s = <<>> THEN <<cur>>
    ELSE IF Len(s) >= Len(sep) /\ SubSeq(s, 1, Len(sep)) = sep
         THEN <<cur>> \o SplitFrom(Tail_n(s, Len(sep)), sep, <<>>)
         ELSE SplitFrom(Tail(s), sep, Append(cur, Head(s)))

split(s, sep) == SplitFrom(s, sep, <<>>)

\* sep.join(parts)
RECURSIVE join(_, _)
join(sep, parts) ==
    IF parts = <<>> THEN <<>>
    ELSE IF Len(parts) = 1 THEN parts[1]
    ELSE parts[1] \o sep \o join(sep, Tail(parts))

s_asc           == <<"a", "s", "c">>
s_desc          == <<"d", "e", "s", "c">>
s_number        == <<"n", "u", "m", "b", "e", "r">>
s_invalid_field == <<"i", "n", "v", "a", "l", "i", "d", "_", "f", "i", "e", "l", "d">>

----------------------------------------------------------------------------
(* columns.py: Column *)

ASC  == 1
DESC == 2

\* lines 58-67: the setter of Column.direction
_set_direction(value) ==
    IF value.tag = "str"
    THEN IF value = StrV(s_asc) \/ value = StrV(s_desc)
         THEN [raised |-> FALSE,
               _direction |-> IF value = StrV(s_asc) THEN IntV(ASC) ELSE IntV(DESC)]
         ELSE [raised |-> TRUE, _direction |-> None]
    ELSE [raised |-> FALSE, _direction |-> value]

\* lines 44-53: a column definition; model_rel <<>> is None, sortable is
\* "None", "True" or "False"
Column(model_rel, default, inaccessible, sortable, direction) ==
    [model_rel    |-> model_rel,
     default      |-> default,
     inaccessible |-> inaccessible,
     sortable     |-> sortable,
     direction    |-> _set_direction(direction)._direction]

----------------------------------------------------------------------------
(* base.py: BaseTable, BoundColumn, BoundRow *)

\* BoundColumn.src_accessor: the backing accessor path of a column
src_accessor(columns, name) ==
    IF columns[name].model_rel # <<>> THEN columns[name].model_rel ELSE name

\* BoundColumn.sortable: the explicit setting, else sortable by default
sortable(columns, name) ==
    IF columns[name].sortable # "None" THEN columns[name].sortable = "True" ELSE TRUE

\* the name of an ordering token without its '-' prefix
rmprefix(o) == IF startswith(o, "-") THEN Tail_n(o, 1) ELSE o

\* the token with its '-' prefix removed if present, added if missing
toggleprefix(o) == IF startswith(o, "-") THEN Tail_n(o, 1) ELSE <<"-">> \o o

\* BaseTable._validate_column_name
BaseTable_validate_column_name(columns, name, purpose) ==
    IF purpose = "order_by"
    THEN /\ name \in DOMAIN columns
         /\ sortable(columns, name)
         /\ ~columns[name].inaccessible
    ELSE TRUE

\* self._validate_column_name: the method of the table's class; the one of
\* ModelTable is defined with models.py below
RECURSIVE ModelTable_validate_column_name(_, _, _)
_validate_column_name(self, name, purpose) ==
    IF self.class = "ModelTable"
    THEN ModelTable_validate_column_name(self.columns, name, purpose)
    ELSE BaseTable_validate_column_name(self.columns, name, purpose)

\* the setter of BaseTable.order_by: a string is split on commas, every
\* token whose name fails validation is dropped, the rest is stored
_set_order_by(self, value) ==
    LET tokens == IF value.form = "str" THEN split(value.value, <<",">>)
                  ELSE value.value
    IN SelectSeq(tokens,
                 LAMBDA o : _validate_column_name(self, rmprefix(o), "order_by"))

\* BaseTable._reset_snapshot with the snapshot left in place
_reset_snapshot_kept(_snapshot) == _snapshot

\* BaseTable._reset_snapshot: the snapshot is discarded when the ordering
\* is assigned and when update() is called; the next read builds a new one
_reset_snapshot(_snapshot) == NoSnapshot

\* BaseTable._resolve_sort_directions: the prefix of a token is toggled
\* when its column's default direction is descending
_resolve_sort_directions(columns, ob) ==
    [n \in 1..Len(ob) |->
        IF columns[rmprefix(ob[n])].direction = IntV(DESC)
        THEN toggleprefix(ob[n])
        ELSE ob[n]]

\* BaseTable._col_names_to_src_names: column names to accessor paths, the
\* prefix kept
_col_names_to_src_names(columns, ob) ==
    [n \in 1..Len(ob) |->
        IF startswith(ob[n], "-")
        THEN Minus(src_accessor(columns, rmprefix(ob[n])))
        ELSE src_accessor(columns, ob[n])]

\* the outcome of a call: the value returned, or the ValueError raised
\* with the segment and the path it names; looked lists the segments of
\* the accessor path that were looked up
Return(v) == [raised |-> FALSE, value |-> v, bit |-> <<>>, accessor |-> <<>>,
              looked |-> <<>>]
Raise(bit, accessor, looked) ==
    [raised |-> TRUE, value |-> None, bit |-> bit, accessor |-> accessor,
     looked |-> looked]

\* BoundRow._default_render of the in-memory table: the value stored
\* under the column's accessor, a callable value being called
BoundRow_default_render(columns, src_row, name) ==
    Return(Resolved(get(src_row, src_accessor(columns, name)), src_row))

\* a callable default that reads the column `name` of the bound row it is
\* given (lambda row: row[name])
DefaultFn(name) == [tag |-> "callable", val |-> <<>>, reads |-> name]

\* BoundRow.__getitem__: the cell of the bound row under a column, rendered
\* by the row's class; the one of BoundModelRow is defined with models.py
\* below
RECURSIVE BoundModelRow_default_render(_, _, _)
BoundRow_getitem(columns, bound_row, name) ==
    IF bound_row.class = "BoundModelRow"
    THEN BoundModelRow_default_render(columns, bound_row.data, name)
    ELSE BoundRow_default_render(columns, bound_row.data, name)

\* BoundColumn.get_default: a callable default is called with the bound
\* row; a literal default is returned
get_default(columns, name, bound_row) ==
    LET default == columns[name].default IN
    IF callable(default)
    THEN BoundRow_getitem(columns, bound_row, default.reads)
    ELSE Return(default)

----------------------------------------------------------------------------
(* memory.py: MemoryTable *)

\* the columns of the in-memory table, in declaration order
MemoryColumnNames == <<s_id, s_population, s_system, s_number>>

MemoryColumns ==
    (s_id         :> Column(<<>>, None, FALSE, "None", IntV(ASC))) @@
    (s_population :> Column(<<>>, DefaultFn(s_id), FALSE, "None", StrV(s_desc))) @@
    (s_system     :> Column(<<>>, StrV(s_republic), FALSE, "None", IntV(ASC))) @@
    (s_number     :> Column(s_id, None, FALSE, "None", IntV(ASC)))

\* lines 64-68: the defaults of the columns filled into one source row
RECURSIVE FillDefaults(_, _, _)
FillDefaults(columns, names, src_row) ==
    IF names = <<>> THEN src_row
    ELSE LET acc == src_accessor(columns, Head(names)) IN
         FillDefaults(columns, Tail(names),
            IF get(src_row, acc) = None
            THEN (acc :> get_default(columns, Head(names),
                        [class |-> "BoundRow", data |-> src_row]).value)
                  @@ src_row
            ELSE src_row)

\* _build_snapshot with line 71 left out: the tokens go to sort_table as stored
MemoryTable_build_snapshot_unresolved(columns, names, source, ob) ==
    LET filled == [i \in 1..Len(source) |-> FillDefaults(columns, names, source[i])] IN
    [source |-> filled,
     rows   |-> IF ob # <<>>
                THEN sort_table(filled, _col_names_to_src_names(columns, ob))
                ELSE filled]

\* lines 55-73 with the sort of lines 70-72 before the loop of lines 57-68:
\* the defaults are filled into the sorted rows
MemoryTable_build_snapshot_sort_first(columns, names, source, ob) ==
    LET sorted == IF ob # <<>>
                  THEN sort_table(source,
                          _col_names_to_src_names(columns,
                              _resolve_sort_directions(columns, ob)))
                  ELSE source
    IN [source |-> [i \in 1..Len(source) |-> FillDefaults(columns, names, source[i])],
        rows   |-> [i \in 1..Len(sorted) |-> FillDefaults(columns, names, sorted[i])]]

\* lines 55-73: the snapshot, and the source as the rebuild leaves it (the
\* copy of line 55 is shallow: the rows of the snapshot are the caller's dicts)
MemoryTable_build_snapshot(columns, names, source, ob) ==
    LET filled == [i \in 1..Len(source) |-> FillDefaults(columns, names, source[i])] IN
    [source |-> filled,
     rows   |-> IF ob # <<>>
                THEN sort_table(filled,
                        _col_names_to_src_names(columns,
                            _resolve_sort_directions(columns, ob)))
                ELSE filled]

\* a row that has no "system" key
row_without_system(i, p) == (s_id :> IntV(i)) @@ (s_population :> p)

MemoryData ==
    {<<>>,
     ExampleRows,
     <<row(1, IntV(6), None), row(2, IntV(30), FnV(StrV(s_monarchy))), row(3, IntV(6), StrV(s_republic))>>,
     <<row(1, IntV(30), StrV(s_monarchy)), row_without_system(2, IntV(6)), row(3, IntV(64), None)>>,
     <<row(1, IntV(3), StrV(s_monarchy)), row(2, None, None), row(3, IntV(1), StrV(s_republic))>>}

\* the ordering requests: a tuple of tokens, or the tokens joined by commas
Requests(tokens) ==
    LET tuples == UNION {[1..n -> tokens] : n \in 0..MaxTokens} IN
    {[form |-> "tuple", value |-> t] : t \in tuples}
    \cup {[form |-> "str", value |-> join(<<",">>, t)] : t \in tuples}

MemoryTokens ==
    {s_population, Minus(s_population), s_system, Minus(s_number), s_invalid_field}

MemoryRequests == Requests(MemoryTokens)

\* the in-memory table: its class and its columns
MemoryTable == [class |-> "MemoryTable", columns |-> MemoryColumns]

\* the setter of order_by over the requests: each value that can be
\* assigned, with the ordering the setter stores for it
MemoryTable_set_order_by ==
    {[value |-> v, stored |-> _set_order_by(MemoryTable, v)] : v \in MemoryRequests}

\* cell.source keeps the source as the caller passed it
MemoryInit ==
    /\ data \in MemoryData
    /\ order_by = <<>>
    /\ snapshot = NoSnapshot
    /\ pc = "table"
    /\ request = NoRequest
    /\ cell = [read |-> FALSE, source |-> data]
    /\ registry = NoRegistry
    /\ column = NoColumn
    /\ cache = NoCache
    /\ queries = NoQueries

\* table.order_by = value
MemorySetOrderBy ==
    /\ pc = "table"
    /\ \E assigned \in MemoryTable_set_order_by :
          /\ request' = assigned.value
          /\ order_by' = assigned.stored
    /\ snapshot' = _reset_snapshot(snapshot)
    /\ UNCHANGED <<data, pc, cell>>
    /\ UNCHANGED <<registry, column, cache, queries>>

\* table.data / table.rows: the snapshot is built when there is none
MemoryRead ==
    /\ pc = "table"
    /\ IF snapshot.built
       THEN UNCHANGED <<data, snapshot>>
       ELSE LET b == MemoryTable_build_snapshot(MemoryColumns, MemoryColumnNames,
                                                data, order_by)
            IN /\ snapshot' = [built |-> TRUE, rows |-> b.rows, ordering |-> <<>>,
                               error |-> ""]
               /\ data' = b.source
    /\ UNCHANGED <<order_by, pc, request, cell>>
    /\ UNCHANGED <<registry, column, cache, queries>>

\* table.update()
MemoryUpdate ==
    /\ pc = "table"
    /\ snapshot' = _reset_snapshot(snapshot)
    /\ UNCHANGED <<data, order_by, pc, request, cell>>
    /\ UNCHANGED <<registry, column, cache, queries>>

MemoryNext == MemorySetOrderBy \/ MemoryRead \/ MemoryUpdate

MemorySpec == MemoryInit /\ [][MemoryNext]_vars

----------------------------------------------------------------------------
(* Properties of the in-memory table *)

\* the rows are in ascending (sign = 1) or descending (sign = -1) order of
\* their values under an accessor
OrderedBy(rows, acc, sign) ==
    \A i, j \in 1..Len(rows) :
        i < j => sign * cmp(KeyValue(rows[i], acc), KeyValue(rows[j], acc)) <= 0

SingleTokenOn(name) ==
    /\ pc = "table"
    /\ snapshot.built
    /\ Len(order_by) = 1
    /\ TokenName(order_by[1]) = name

\* C7: for a column whose default direction is descending, an unprefixed
\* token sorts the rows descending and a '-' token sorts them ascending.
DescendingColumnToggles ==
    \A name \in DOMAIN MemoryColumns :
        (SingleTokenOn(name) /\ MemoryColumns[name].direction = IntV(DESC)) =>
            OrderedBy(snapshot.rows, src_accessor(MemoryColumns, name),
                      IF TokenPrefixed(order_by[1]) THEN 1 ELSE -1)

\* C7 witness: a '-' token on the descending column has sorted rows with
\* different values ascending, and moved them
DescendingColumnTogglesWitness ==
    /\ SingleTokenOn(s_population)
    /\ MemoryColumns[s_population].direction = IntV(DESC)
    /\ TokenPrefixed(order_by[1])
    /\ snapshot.rows # data
    /\ \E i, j \in 1..Len(snapshot.rows) :
          cmp(KeyValue(snapshot.rows[i], s_population),
              KeyValue(snapshot.rows[j], s_population)) < 0

\* the rows a read returns when the snapshot is built now, from the source
\* and the ordering as they are
RowsUnderOrderingInForce ==
    MemoryTable_build_snapshot(MemoryColumns, MemoryColumnNames, data, order_by).rows

\* C17: the snapshot a read serves is the one built from the ordering in
\* force: after any ordering changes, updates and reads, a snapshot that
\* is there holds the rows in the order the current ordering gives.
ReadServesOrderingInForce ==
    (pc = "table" /\ snapshot.built) => snapshot.rows = RowsUnderOrderingInForce

\* C17 witness: an ordering was assigned and the rows were read after it:
\* they are in the order of '-population' (ascending, the column being
\* descending by default), which is not the order of the source
ReadServesOrderingInForceWitness ==
    /\ pc = "table"
    /\ request.form # "unset"
    /\ order_by = <<Minus(s_population)>>
    /\ snapshot.built
    /\ OrderedBy(snapshot.rows, s_population, 1)
    /\ Ids(snapshot.rows) # Ids(data)

----------------------------------------------------------------------------
(* tests/testapp/models.py: the models, and their records *)

s_capital        == <<"c", "a", "p", "i", "t", "a", "l">>
s_tld            == <<"t", "l", "d">>
s_null           == <<"n", "u", "l", "l">>
s_null2          == <<"n", "u", "l", "l", "2">>
s_example_domain == <<"e", "x", "a", "m", "p", "l", "e", "_", "d", "o", "m", "a", "i", "n">>
s_domain         == <<"d", "o", "m", "a", "i", "n">>
s_custom         == <<"c", "u", "s", "t", "o", "m">>
s_invalid        == <<"i", "n", "v", "a", "l", "i", "d">>
s_capital_name   == <<"c", "a", "p", "i", "t", "a", "l", "_", "n", "a", "m", "e">>
s_cap_pop        == <<"c", "a", "p", "_", "p", "o", "p">>
s_deep           == <<"d", "e", "e", "p">>
s_secret         == <<"s", "e", "c", "r", "e", "t">>
s_sep            == <<"_", "_">>

\* the path a__b
Rel(a, b) == a \o s_sep \o b

\* the fields of each model; a relation field names the model it leads to
Fields ==
    [Country |-> (s_id :> "") @@ (s_name :> "") @@ (s_population :> "") @@
                 (s_capital :> "City") @@ (s_tld :> "") @@ (s_system :> "") @@
                 (s_null :> "") @@ (s_null2 :> ""),
     City    |-> (s_id :> "") @@ (s_name :> "") @@ (s_population :> "")]

\* a City record
City(id, name, population) ==
    [tag |-> "instance", val |-> <<id>>,
     attrs |-> (s_id :> IntV(id)) @@ (s_name :> StrV(name)) @@
               (s_population :> population)]

\* a Country record; example_domain is the method of the model
Country(id, name, population, capital, tld, system) ==
    [tag |-> "instance", val |-> <<id>>,
     attrs |-> (s_id :> IntV(id)) @@ (s_name :> StrV(name)) @@
               (s_population :> IntV(population)) @@ (s_capital :> capital) @@
               (s_tld :> StrV(tld)) @@ (s_system :> system) @@ (s_null :> None) @@
               (s_null2 :> None) @@
               (s_example_domain :>
                    FnV(StrV(<<"e", "x", "a", "m", "p", "l", "e", ".">> \o tld)))]

berlin    == City(1, <<"b", "e", "r", "l", "i", "n">>, IntV(30))
amsterdam == City(2, <<"a", "m", "s", "t", "e", "r", "d", "a", "m">>, None)

austria     == Country(1, <<"a", "u", "s", "t", "r", "i", "a">>, 8, None,
                       <<"a", "u">>, StrV(s_republic))
germany     == Country(2, <<"g", "e", "r", "m", "a", "n", "y">>, 81, berlin,
                       <<"d", "e">>, None)
france      == Country(3, <<"f", "r", "a", "n", "c", "e">>, 64, None,
                       <<"f", "r">>, StrV(s_republic))
netherlands == Country(4, <<"n", "e", "t", "h", "e", "r", "l", "a", "n", "d", "s">>, 16,
                       amsterdam, <<"n", "l">>, StrV(s_monarchy))

\* a City and a Country whose fields hold the values that are false without
\* being None: 0, the empty string and False
ghost_town == City(3, <<"g", "h", "o", "s", "t">>, IntV(0))
nowhere    ==
    LET c == Country(5, <<"n", "o", "w", "h", "e", "r", "e">>, 0, ghost_town,
                     <<"n", "w">>, StrV(<<>>))
    IN [c EXCEPT !.attrs[s_null] = BoolV(FALSE)]

\* the querysets a table is built over
Querysets == {<<austria, germany, france, netherlands>>, <<france>>, <<>>,
              <<netherlands, germany>>, <<nowhere>>}

----------------------------------------------------------------------------
(* models.py: ModelTable and BoundModelRow *)

\* the columns of the model-backed table
ModelColumns ==
    (s_id             :> Column(<<>>, None, FALSE, "False", IntV(ASC))) @@
    (s_population     :> Column(<<>>, None, FALSE, "None", IntV(ASC))) @@
    (s_name           :> Column(<<>>, None, FALSE, "None", StrV(s_desc))) @@
    (s_domain         :> Column(s_tld, None, FALSE, "None", IntV(ASC))) @@
    (s_system         :> Column(<<>>, StrV(s_republic), FALSE, "None", IntV(ASC))) @@
    (s_custom         :> Column(<<>>, None, FALSE, "True", IntV(ASC))) @@
    (s_capital_name   :> Column(Rel(s_capital, s_name), None, FALSE, "None", IntV(ASC))) @@
    (s_cap_pop        :> Column(Rel(s_capital, s_population), StrV(s_republic), FALSE,
                                "None", IntV(ASC))) @@
    (s_invalid        :> Column(Rel(s_capital, s_invalid), None, FALSE, "None", IntV(ASC))) @@
    (s_deep           :> Column(Rel(Rel(s_capital, s_invalid), s_name), StrV(s_republic),
                                FALSE, "None", IntV(ASC))) @@
    (s_example_domain :> Column(<<>>, None, FALSE, "None", IntV(ASC))) @@
    (s_null           :> Column(<<>>, DefaultFn(s_example_domain), FALSE, "None", IntV(ASC))) @@
    (s_null2          :> Column(<<>>, None, FALSE, "None", IntV(ASC))) @@
    (s_secret         :> Column(s_tld, None, TRUE, "None", IntV(ASC)))

\* lines 216-221: whether the model's manager can order by the path, i.e.
\* order_by(path) compiles without FieldError
RECURSIVE OrderableFrom(_, _)
OrderableFrom(model, bits) ==
    /\ bits # <<>>
    /\ Head(bits) \in DOMAIN Fields[model]
    /\ \/ Len(bits) = 1
       \/ /\ Fields[model][Head(bits)] # ""
          /\ OrderableFrom(Fields[model][Head(bits)], Tail(bits))

FieldError(path) == ~OrderableFrom("Country", split(path, s_sep))

\* _validate_column_name without the try of lines 208-221
ModelTable_validate_column_name_unchecked(columns, name, purpose) ==
    IF ~BaseTable_validate_column_name(columns, name, purpose) THEN FALSE
    ELSE purpose = "order_by"

\* lines 192-226
ModelTable_validate_column_name(columns, name, purpose) ==
    IF ~BaseTable_validate_column_name(columns, name, purpose) THEN FALSE
    ELSE IF purpose = "order_by"
         THEN ~FieldError(src_accessor(columns, name))
         ELSE FALSE

\* _build_snapshot with line 239 left out: the tokens are passed on as stored
ModelTable_build_snapshot_unresolved(columns, queryset, ob) ==
    LET ordering == IF ob # <<>> THEN _col_names_to_src_names(columns, ob) ELSE <<>>
    IN [built |-> TRUE, rows |-> queryset, ordering |-> ordering,
        error |-> IF \E n \in 1..Len(ordering) : FieldError(rmprefix(ordering[n]))
                  THEN "FieldError" ELSE ""]

\* lines 237-243 with the tokens resolved and passed on under the column
\* names, not translated to the accessor paths
ModelTable_build_snapshot_column_names(columns, queryset, ob) ==
    LET ordering == IF ob # <<>> THEN _resolve_sort_directions(columns, ob)
                    ELSE <<>>
    IN [built |-> TRUE, rows |-> queryset, ordering |-> ordering,
        error |-> IF \E n \in 1..Len(ordering) : FieldError(rmprefix(ordering[n]))
                  THEN "FieldError" ELSE ""]

\* lines 237-243: the snapshot is the queryset with the native ordering
\* attached, not evaluated; ordering holds the arguments of the order_by
\* call (none made when empty), error what that call raises
ModelTable_build_snapshot(columns, queryset, ob) ==
    LET ordering == IF ob # <<>>
                    THEN _col_names_to_src_names(columns,
                            _resolve_sort_directions(columns, ob))
                    ELSE <<>>
    IN [built |-> TRUE, rows |-> queryset, ordering |-> ordering,
        error |-> IF \E n \in 1..Len(ordering) : FieldError(rmprefix(ordering[n]))
                  THEN "FieldError" ELSE ""]

\* hasattr(current, bit) and getattr(current, bit): records have the
\* attributes of their model; the str and int values have none of the
\* names used in accessor paths
hasattr(current, bit) == current.tag = "instance" /\ bit \in DOMAIN current.attrs

getattr(current, bit) == current.attrs[bit]

\* lines 75-96 with the break of lines 95-96 left out: the loop goes on
\* below a None
RECURSIVE Traverse_no_break(_, _, _, _)
Traverse_no_break(current, bits, accessor, looked) ==
    IF bits = <<>> THEN [Return(current) EXCEPT !.looked = looked]
    ELSE IF ~hasattr(current, Head(bits))
         THEN Raise(Head(bits), accessor, looked)
         ELSE LET attr == getattr(current, Head(bits))
                  next == IF callable(attr) THEN Call(attr, <<>>) ELSE attr
              IN Traverse_no_break(next, Tail(bits), accessor, Append(looked, Head(bits)))

\* lines 75-96 with getattr(current, bit, None) in place of the hasattr
\* test: a missing segment reads as None
RECURSIVE Traverse_missing_is_none(_, _, _, _)
Traverse_missing_is_none(current, bits, accessor, looked) ==
    IF bits = <<>> THEN [Return(current) EXCEPT !.looked = looked]
    ELSE IF ~hasattr(current, Head(bits))
         THEN [Return(None) EXCEPT !.looked = looked]
         ELSE LET attr == getattr(current, Head(bits))
                  next == IF callable(attr) THEN Call(attr, <<>>) ELSE attr
              IN IF next = None
                 THEN [Return(None) EXCEPT !.looked = Append(looked, Head(bits))]
                 ELSE Traverse_missing_is_none(next, Tail(bits), accessor,
                                               Append(looked, Head(bits)))

\* lines 75-96: the loop over the segments of the accessor path
RECURSIVE Traverse(_, _, _, _)
Traverse(current, bits, accessor, looked) ==
    IF bits = <<>> THEN [Return(current) EXCEPT !.looked = looked]
    ELSE IF ~hasattr(current, Head(bits))
         THEN Raise(Head(bits), accessor, looked)
         ELSE LET attr == getattr(current, Head(bits))
                  next == IF callable(attr) THEN Call(attr, <<>>) ELSE attr
              IN IF next = None
                 THEN [Return(None) EXCEPT !.looked = Append(looked, Head(bits))]
                 ELSE Traverse(next, Tail(bits), accessor, Append(looked, Head(bits)))

\* lines 67-102 with a column that has no default taken as required: a
\* None at the end of the path is an error
BoundModelRow_default_render_required(columns, record, name) ==
    LET accessor == src_accessor(columns, name)
        bits     == split(accessor, s_sep)
        walked   == Traverse(record, bits, accessor, <<>>)
    IN IF walked.raised THEN walked
       ELSE IF walked.value = None
            THEN IF columns[name].default # None
                 THEN [get_default(columns, name,
                           [class |-> "BoundModelRow", data |-> record])
                       EXCEPT !.looked = walked.looked]
                 ELSE Raise(bits[Len(walked.looked)], accessor, walked.looked)
            ELSE walked

\* the truth value of a Python value: None, 0, the empty string and False
\* are false
truth(v) ==
    CASE v.tag = "None" -> FALSE
      [] v.tag \in {"int", "bool"} -> v.val # <<0>>
      [] v.tag = "str" -> v.val # <<>>
      [] OTHER -> TRUE

\* lines 67-102 with `if not current` in place of `if current is None` in
\* line 98: every false value is replaced by the default
BoundModelRow_default_render_falsy(columns, record, name) ==
    LET accessor == src_accessor(columns, name)
        walked   == Traverse(record, split(accessor, s_sep), accessor, <<>>)
    IN IF walked.raised THEN walked
       ELSE IF ~truth(walked.value) /\ columns[name].default # None
            THEN [get_default(columns, name,
                      [class |-> "BoundModelRow", data |-> record])
                  EXCEPT !.looked = walked.looked]
            ELSE walked

\* lines 67-102: the cell of a record under a column
BoundModelRow_default_render(columns, record, name) ==
    LET accessor == src_accessor(columns, name)
        walked   == Traverse(record, split(accessor, s_sep), accessor, <<>>)
    IN IF walked.raised THEN walked
       ELSE IF walked.value = None /\ columns[name].default # None
            THEN [get_default(columns, name,
                      [class |-> "BoundModelRow", data |-> record])
                  EXCEPT !.looked = walked.looked]
            ELSE walked

ModelTokens ==
    {s_population, Minus(s_domain), s_name, Minus(s_name), s_custom,
     Minus(s_invalid), s_invalid_field, s_id, s_secret}

ModelRequests == Requests(ModelTokens)

\* the table over the Country model: its class and its columns
ModelTable == [class |-> "ModelTable", columns |-> ModelColumns]

\* the setter of order_by over the requests: each value that can be
\* assigned, with the ordering the setter stores for it
ModelTable_set_order_by ==
    {[value |-> v, stored |-> _set_order_by(ModelTable, v)] : v \in ModelRequests}

ModelInit ==
    /\ data = <<france>>
    /\ order_by = <<>>
    /\ snapshot = NoSnapshot
    /\ pc = "table"
    /\ request = NoRequest
    /\ cell = NoCell
    /\ registry = NoRegistry
    /\ column = NoColumn
    /\ cache = NoCache
    /\ queries = NoQueries

\* table.order_by = value
ModelSetOrderBy ==
    /\ pc = "table"
    /\ \E assigned \in ModelTable_set_order_by :
          /\ request' = assigned.value
          /\ order_by' = assigned.stored
    /\ snapshot' = _reset_snapshot(snapshot)
    /\ UNCHANGED <<data, pc, cell>>
    /\ UNCHANGED <<registry, column, cache, queries>>

\* table.data / table.rows: the snapshot is built when there is none
ModelRead ==
    /\ pc = "table"
    /\ IF snapshot.built
       THEN UNCHANGED snapshot
       ELSE snapshot' = ModelTable_build_snapshot(ModelColumns, data, order_by)
    /\ UNCHANGED <<data, order_by, pc, request, cell>>
    /\ UNCHANGED <<registry, column, cache, queries>>

ModelNext == ModelSetOrderBy \/ ModelRead

ModelSpec == ModelInit /\ [][ModelNext]_vars

----------------------------------------------------------------------------
(* Properties of the ordering of the model-backed table *)

\* the tokens an ordering request asks for
RequestTuples(tokens) == UNION {[1..n -> tokens] : n \in 0..MaxTokens}

RequestedTokens ==
    [value \in ModelRequests |->
        CHOOSE t \in RequestTuples(ModelTokens) :
            IF value.form = "tuple" THEN value.value = t
            ELSE value.value = join(<<",">>, t)]

\* the accessor path behind a column name
PathOf(name) ==
    IF ModelColumns[name].model_rel = <<>> THEN name ELSE ModelColumns[name].model_rel

\* a name passes validation for ordering: it is a column of the table, not
\* declared unsortable, accessible, and the model can order by its path
PassesValidation(name) ==
    /\ name \in DOMAIN ModelColumns
    /\ ModelColumns[name].sortable # "False"
    /\ ~ModelColumns[name].inaccessible
    /\ ~FieldError(PathOf(name))

\* C5: whatever is assigned to order_by, string or sequence, the stored
\* ordering is the subsequence of the requested tokens whose names pass
\* validation, in their order and with their '-' prefixes; nothing is
\* stored of a request whose tokens all fail.
InvalidTokensDropped ==
    (pc = "table" /\ request.form # "unset") =>
        order_by = SelectSeq(RequestedTokens[request],
                             LAMBDA o : PassesValidation(TokenName(o)))

\* C5 witness: 'invalid_field,population' has been stored as ('population',)
InvalidTokensDroppedWitness ==
    /\ pc = "table"
    /\ request = [form |-> "str",
                  value |-> s_invalid_field \o <<",">> \o s_population]
    /\ order_by = <<s_population>>

\* C6: every key of the stored ordering is a column whose accessor path the
\* model can order by, and the native order_by call of the snapshot build
\* does not fail.
StoredOrderingIsOrderable ==
    pc = "table" =>
        /\ \A n \in 1..Len(order_by) :
              /\ TokenName(order_by[n]) \in DOMAIN ModelColumns
              /\ ~FieldError(PathOf(TokenName(order_by[n])))
        /\ snapshot.built => snapshot.error = ""

\* C6 witness: a request naming the column without a model field and one
\* naming the column with the invalid relationship path were assigned, a
\* valid key survived, and the snapshot was built with the native call
StoredOrderingIsOrderableWitness ==
    /\ pc = "table"
    /\ request.form = "tuple"
    /\ \E n \in 1..Len(request.value) :
          request.value[n] \in {s_custom, Minus(s_invalid)}
    /\ order_by # <<>>
    /\ snapshot.built
    /\ snapshot.ordering # <<>>
    /\ snapshot.error = ""

\* the native ordering argument of the n-th key asks for descending order
EffectiveDescending(n) == TokenPrefixed(snapshot.ordering[n])

DefaultDescending(n) == ModelColumns[TokenName(order_by[n])].direction = IntV(DESC)

\* C8 as stated: the effective direction of a key is descending when its
\* token carries '-', and the column's default direction when it does not.
ExplicitSignIsAbsolute ==
    (pc = "table" /\ snapshot.built) =>
        \A n \in 1..Len(order_by) :
            IF TokenPrefixed(order_by[n])
            THEN EffectiveDescending(n)
            ELSE EffectiveDescending(n) <=> DefaultDescending(n)

\* C8 amended: the effective direction of a key is the column's default
\* direction when its token carries no sign, and the opposite of the
\* column's default direction when the token carries '-'.
SignReversesDefault ==
    (pc = "table" /\ snapshot.built) =>
        /\ Len(snapshot.ordering) = Len(order_by)
        /\ \A n \in 1..Len(order_by) :
              EffectiveDescending(n) <=>
                  (IF TokenPrefixed(order_by[n]) THEN ~DefaultDescending(n)
                   ELSE DefaultDescending(n))

\* C8 witness: a snapshot built under a '-' token on the column whose
\* default direction is descending
SignReversesDefaultWitness ==
    /\ pc = "table"
    /\ snapshot.built
    /\ \E n \in 1..Len(order_by) : TokenPrefixed(order_by[n]) /\ DefaultDescending(n)

----------------------------------------------------------------------------
(* Cell reads of the model-backed table *)

CellInit ==
    /\ data \in Querysets \ {<<>>}
    /\ order_by = <<>>
    /\ snapshot = NoSnapshot
    /\ pc = "cell"
    /\ request = NoRequest
    /\ cell = NoCell
    /\ registry = NoRegistry
    /\ column = NoColumn
    /\ cache = NoCache
    /\ queries = NoQueries

\* table.rows[i][name]; again tells that the read before was of the same cell
GetItem ==
    /\ pc = "cell"
    /\ \E i \in 1..Len(data), name \in DOMAIN ModelColumns :
          cell' = [read  |-> TRUE, rec |-> i, col |-> name,
                   out   |-> BoundModelRow_default_render(ModelColumns, data[i], name),
                   again |-> cell.read /\ cell.rec = i /\ cell.col = name]
    /\ UNCHANGED <<data, order_by, snapshot, pc, request>>
    /\ UNCHANGED <<registry, column, cache, queries>>

CellNext == GetItem

CellSpec == CellInit /\ [][CellNext]_vars

\* the object reached from a record by the first k segments of a path, with
\* ok telling that every one of them existed on a non-None object
RECURSIVE Follow(_, _, _)
Follow(obj, bits, k) ==
    IF k = 0 THEN [ok |-> TRUE, obj |-> obj]
    ELSE IF obj = None \/ obj.tag # "instance" \/ Head(bits) \notin DOMAIN obj.attrs
         THEN [ok |-> FALSE, obj |-> None]
         ELSE LET a == obj.attrs[Head(bits)] IN
              Follow(IF a.tag = "callable" THEN a.ret ELSE a, Tail(bits), k - 1)

CellPath == split(PathOf(cell.col), s_sep)

\* segment k of the path does not exist on the object reached so far
MissingAt(k) ==
    LET f == Follow(data[cell.rec], CellPath, k - 1) IN
    /\ f.ok
    /\ f.obj # None
    /\ ~(f.obj.tag = "instance" /\ CellPath[k] \in DOMAIN f.obj.attrs)

\* segment k of the path exists on the object reached so far, with value None
NoneAt(k) ==
    LET f == Follow(data[cell.rec], CellPath, k) IN f.ok /\ f.obj = None

\* C9: when a segment of a column's accessor path does not exist on the
\* object reached so far, at any position, the cell read raises ValueError
\* naming the segment and the path, on every call; no value, None or
\* default is returned.
MissingSegmentRaises ==
    (pc = "cell" /\ cell.read) =>
        \A k \in 1..Len(CellPath) :
            MissingAt(k) =>
                /\ cell.out.raised
                /\ cell.out.bit = CellPath[k]
                /\ cell.out.accessor = PathOf(cell.col)

\* C9 witness: the second read in a row of a cell whose path lacks an
\* intermediate segment, on a column with a default
MissingSegmentRaisesWitness ==
    /\ pc = "cell"
    /\ cell.read
    /\ cell.again
    /\ cell.col = s_deep
    /\ ModelColumns[s_deep].default # None
    /\ MissingAt(2)
    /\ cell.out.raised

\* C10: when a segment exists on the current object with value None, the
\* traversal stops there: no later segment is looked up, nothing is raised,
\* and the cell is the column's default, or None without one.
NoneStopsTraversal ==
    (pc = "cell" /\ cell.read) =>
        \A k \in 1..Len(CellPath) :
            NoneAt(k) =>
                LET default == ModelColumns[cell.col].default IN
                /\ ~cell.out.raised
                /\ cell.out.looked = SubSeq(CellPath, 1, k)
                /\ cell.out.value =
                      IF default = None THEN None
                      ELSE IF default.tag = "callable"
                           THEN BoundModelRow_default_render(
                                    ModelColumns, data[cell.rec], default.reads).value
                           ELSE default

\* C10 witness: 'capital__name' read on a record without a capital gave None
NoneStopsTraversalWitness ==
    /\ pc = "cell"
    /\ cell.read
    /\ cell.col = s_capital_name
    /\ NoneAt(1)
    /\ cell.out.looked = <<s_capital>>
    /\ cell.out.value = None
    /\ ~cell.out.raised

\* the value at the end of the path of the read cell: present tells that
\* every segment existed and none before the last had the value None
CellEnd ==
    LET f == Follow(data[cell.rec], CellPath, Len(CellPath)) IN
    [present |-> f.ok, value |-> f.obj]

\* C11: for a column without a default and a record whose value at the
\* final segment of the path is None, the cell read returns None and does
\* not raise.
NoDefaultNoneIsNone ==
    (pc = "cell" /\ cell.read) =>
        ((ModelColumns[cell.col].default = None
            /\ CellEnd.present /\ CellEnd.value = None)
         => (~cell.out.raised /\ cell.out.value = None))

\* C11 witness: 'null2', a column without a default, read on a record whose
\* null2 is None
NoDefaultNoneIsNoneWitness ==
    /\ pc = "cell"
    /\ cell.read
    /\ cell.col = s_null2
    /\ ModelColumns[s_null2].default = None
    /\ CellEnd.present
    /\ CellEnd.value = None
    /\ cell.out = [Return(None) EXCEPT !.looked = <<s_null2>>]

\* the value of the path of column `name` on the record of the read cell
ValueOn(name) ==
    LET bits == split(PathOf(name), s_sep) IN
    Follow(data[cell.rec], bits, Len(bits)).obj

\* C12: a value that is not None, 0, the empty string and False included,
\* is returned unchanged; a None is replaced by a literal default as it is,
\* and by what a callable default returns for the bound row of the same
\* record, which is the value of the column it reads on that record.
DefaultAppliedOnlyToNone ==
    (pc = "cell" /\ cell.read /\ ~cell.out.raised) =>
        LET default == ModelColumns[cell.col].default IN
        /\ (CellEnd.present /\ CellEnd.value # None) => cell.out.value = CellEnd.value
        /\ ((\E k \in 1..Len(CellPath) : NoneAt(k)) /\ default # None) =>
               cell.out.value = IF default.tag = "callable"
                                THEN ValueOn(default.reads)
                                ELSE default

\* C12 witness: the empty string under 'system', a column with a default,
\* came back as the empty string
DefaultAppliedOnlyToNoneWitness ==
    /\ pc = "cell"
    /\ cell.read
    /\ cell.col = s_system
    /\ ModelColumns[s_system].default # None
    /\ CellEnd.value = StrV(<<>>)
    /\ cell.out.value = StrV(<<>>)

\* C12 witness of the callable default: 'null' read on a record whose null
\* is None gave the record's example_domain()
CallableDefaultReadsSameRecord ==
    /\ pc = "cell"
    /\ cell.read
    /\ cell.col = s_null
    /\ NoneAt(1)
    /\ cell.out.value = Call(data[cell.rec].attrs[s_example_domain], <<>>)

----------------------------------------------------------------------------
(* models.py: columns_for_model and ModelTableMetaclass *)

\* the longest include list ('columns' option) the model builds with
MaxInclude == 2

\* model._meta.fields: the names of the model's fields, in order
opts_fields(model) ==
    IF model = "Country"
    THEN <<s_id, s_name, s_population, s_capital, s_tld, s_system, s_null, s_null2>>
    ELSE <<s_id, s_name, s_population>>

\* a column definition; origin tells who constructed it: columns_for_model,
\* the table class ("table") or the class it inherits from ("parent")
ColumnDef(origin, name) ==
    [tag |-> "Column", val |-> <<>>, origin |-> origin, verbose_name |-> name]

\* an ordered dict is a sequence of items [key, value]; d[k] = v replaces
\* the value of an existing key in place and appends a new key
item(k, v) == [key |-> k, value |-> v]

keys(d) == [i \in 1..Len(d) |-> d[i].key]

setitem(d, k, v) ==
    IF \E i \in 1..Len(d) : d[i].key = k
    THEN [i \in 1..Len(d) |-> IF d[i].key = k THEN item(k, v) ELSE d[i]]
    ELSE Append(d, item(k, v))

\* d.update(items), and OrderedDict(items)
RECURSIVE update(_, _)
update(d, items) ==
    IF items = <<>> THEN d
    ELSE update(setitem(d, Head(items).key, Head(items).value), Tail(items))

OrderedDict(items) == update(<<>>, items)

\* d.get(k): None for a missing key
dict_get(d, k) ==
    IF \E i \in 1..Len(d) : d[i].key = k
    THEN d[CHOOSE i \in 1..Len(d) : d[i].key = k].value
    ELSE None

\* `x in list`
contains(list, x) == \E i \in 1..Len(list) : list[i] = x

\* lines 50-54 without the exclude test of line 53: a listed name is kept
\* though it is excluded
columns_for_model_include_wins(model, columns, exclude) ==
    LET fields     == opts_fields(model)
        kept       == SelectSeq(fields,
                         LAMBDA f : ~((columns # <<>> /\ ~contains(columns, f))
                                      \/ (exclude # <<>> /\ contains(exclude, f))))
        field_dict == OrderedDict([i \in 1..Len(kept) |->
                         item(kept[i], ColumnDef("columns_for_model", kept[i]))])
    IN IF columns # <<>>
       THEN OrderedDict([i \in 1..Len(columns) |->
                            item(columns[i], dict_get(field_dict, columns[i]))])
       ELSE field_dict

\* lines 27-55
columns_for_model(model, columns, exclude) ==
    LET fields     == opts_fields(model)
        kept       == SelectSeq(fields,
                         LAMBDA f : ~((columns # <<>> /\ ~contains(columns, f))
                                      \/ (exclude # <<>> /\ contains(exclude, f))))
        field_dict == OrderedDict([i \in 1..Len(kept) |->
                         item(kept[i], ColumnDef("columns_for_model", kept[i]))])
        listed     == SelectSeq(columns,
                         LAMBDA c : exclude = <<>> \/ ~contains(exclude, c))
    IN IF columns # <<>>
       THEN OrderedDict([i \in 1..Len(listed) |->
                            item(listed[i], dict_get(field_dict, listed[i]))])
       ELSE field_dict

\* DeclarativeColumnsMetaclass.__new__ (base.py): the columns among the
\* attributes of the class, sorted by creation counter, after those of the
\* parent class; attrs maps each declared name to its creation counter
RECURSIVE by_creation_counter(_)
by_creation_counter(attrs) ==
    IF DOMAIN attrs = {} THEN <<>>
    ELSE LET first == CHOOSE n \in DOMAIN attrs :
                          \A m \in DOMAIN attrs : attrs[n] <= attrs[m]
         IN <<item(first, ColumnDef("table", first))>>
            \o by_creation_counter([n \in DOMAIN attrs \ {first} |-> attrs[n]])

DeclarativeColumnsMetaclass_new(parent_columns, attrs) ==
    OrderedDict(parent_columns \o by_creation_counter(attrs))

\* lines 136-152 with the declared columns added only where the name is
\* not yet there: a model field's column is not overridden
ModelTableMetaclass_new_fields_win(parent_columns, attrs, Meta) ==
    LET declared_columns == DeclarativeColumnsMetaclass_new(parent_columns, attrs)
        columns == columns_for_model(Meta.model, Meta.columns, Meta.exclude)
        added   == SelectSeq(declared_columns,
                             LAMBDA d : ~contains(keys(columns), d.key))
    IN [built |-> TRUE, Meta |-> Meta, parent |-> parent_columns, attrs |-> attrs,
        declared_columns |-> declared_columns,
        columns |-> IF Meta.model # "" THEN columns ELSE <<>>,
        base_columns |-> IF Meta.model # ""
                         THEN update(columns, added)
                         ELSE declared_columns]

\* lines 136-152: the class the metaclass builds; columns is what
\* columns_for_model returned in line 149
ModelTableMetaclass_new(parent_columns, attrs, Meta) ==
    LET declared_columns == DeclarativeColumnsMetaclass_new(parent_columns, attrs)
        columns == columns_for_model(Meta.model, Meta.columns, Meta.exclude)
    IN [built |-> TRUE, Meta |-> Meta, parent |-> parent_columns, attrs |-> attrs,
        declared_columns |-> declared_columns,
        columns |-> IF Meta.model # "" THEN columns ELSE <<>>,
        base_columns |-> IF Meta.model # ""
                         THEN update(columns, declared_columns)
                         ELSE declared_columns]

\* the names the Meta options and the declarations are drawn from: a field
\* of both models, a field of Country only, a name that is declared only,
\* and a name that may be nowhere
RegistryNames == {s_name, s_tld, s_custom, s_invalid_field}

\* the include lists, and the exclude lists (in which only membership
\* counts); the empty list stands for an option that is not given
IncludeLists == UNION {[1..n -> RegistryNames] : n \in 0..MaxInclude}
ExcludeLists == {<<>>, <<s_tld>>, <<s_name>>, <<s_custom>>, <<s_name, s_tld>>,
                 <<s_tld, s_custom>>, <<s_invalid_field>>}

\* the declarations of a class, each name with its creation counter, and
\* the declared columns of a parent class
Declarations ==
    {<<>>, (s_name :> 7), (s_custom :> 7),
     (s_name :> 7) @@ (s_custom :> 8), (s_name :> 8) @@ (s_custom :> 7)}
ParentColumns ==
    {<<>>, <<item(s_custom, ColumnDef("parent", s_custom))>>,
     <<item(s_custom, ColumnDef("parent", s_custom)),
       item(s_name, ColumnDef("parent", s_name))>>}

Metas == [model : {"", "Country", "City"}, columns : IncludeLists,
          exclude : ExcludeLists]

RegistryInit ==
    /\ data = <<>>
    /\ order_by = <<>>
    /\ snapshot = NoSnapshot
    /\ pc = "class"
    /\ request = NoRequest
    /\ cell = NoCell
    /\ registry \in [built : {FALSE}, Meta : Metas, parent : ParentColumns,
                     attrs : Declarations]
    /\ column = NoColumn
    /\ cache = NoCache
    /\ queries = NoQueries

\* class XTable(ParentTable): ... class Meta: ...
ClassStatement ==
    /\ pc = "class"
    /\ registry' = ModelTableMetaclass_new(registry.parent, registry.attrs,
                                           registry.Meta)
    /\ pc' = "table"
    /\ UNCHANGED <<data, order_by, snapshot, request, cell, column, cache, queries>>

RegistryNext == ClassStatement

RegistrySpec == RegistryInit /\ [][RegistryNext]_vars

----------------------------------------------------------------------------
(* Properties of the registry assembly *)

ClassBuilt == pc = "table" /\ registry.built

\* the name is a field of the class's model, or a declared column
IsField(n) == registry.Meta.model # "" /\ contains(opts_fields(registry.Meta.model), n)
IsDeclared(n) == n \in DOMAIN registry.attrs \/ contains(keys(registry.parent), n)

\* C13: with a non-empty include list the names of the registry are the
\* include list restricted to the names that are model fields or declared
\* columns, in the order of the list; a name that is neither is not in the
\* registry.
IncludeListIsRegistryOrder ==
    (ClassBuilt /\ registry.Meta.model # "" /\ registry.Meta.columns # <<>>) =>
        keys(registry.base_columns) =
            SelectSeq(registry.Meta.columns, LAMBDA n : IsField(n) \/ IsDeclared(n))

\* C13: a name of the include list that is neither a model field nor a
\* declared column is a key of base_columns, with None as its entry
UnknownIncludedNameIsKept ==
    /\ ClassBuilt
    /\ registry.Meta = [model |-> "Country", columns |-> <<s_tld, s_invalid_field>>,
                        exclude |-> <<>>]
    /\ registry.attrs = <<>>
    /\ registry.parent = <<>>
    /\ keys(registry.base_columns) = <<s_tld, s_invalid_field>>
    /\ dict_get(registry.base_columns, s_invalid_field) = None

\* C14: every column declared on the class or inherited from its parent
\* is in the registry, excluded or not listed as it may be; the registry
\* has one entry per name; the entry of a declared name is the declared
\* definition (that of the class before that of the parent), also when the
\* name is a model field.
DeclaredColumnsWin ==
    ClassBuilt =>
        LET base == registry.base_columns IN
        /\ \A n \in DOMAIN registry.attrs :
              /\ contains(keys(base), n)
              /\ dict_get(base, n) = ColumnDef("table", n)
        /\ \A i \in 1..Len(registry.parent) :
              LET n == registry.parent[i].key IN
              /\ contains(keys(base), n)
              /\ n \notin DOMAIN registry.attrs =>
                    dict_get(base, n) = registry.parent[i].value
        /\ \A i, j \in 1..Len(base) : base[i].key = base[j].key => i = j

\* C14 witness: 'name', a field of the model, is declared, excluded and not
\* in the include list, and the registry holds the declared definition;
\* the inherited 'custom' is there as well
DeclaredColumnsWinWitness ==
    /\ ClassBuilt
    /\ registry.Meta = [model |-> "Country", columns |-> <<s_tld>>,
                        exclude |-> <<s_name>>]
    /\ s_name \in DOMAIN registry.attrs
    /\ IsField(s_name)
    /\ dict_get(registry.base_columns, s_name) = ColumnDef("table", s_name)
    /\ contains(keys(registry.parent), s_custom)
    /\ dict_get(registry.base_columns, s_custom) = ColumnDef("parent", s_custom)

\* C15: in the result of columns_for_model no name of the exclude list is
\* present, listed or not; every field that is listed and not excluded is
\* present, with a column.
ExcludeBeatsInclude ==
    (ClassBuilt /\ registry.Meta.model # "") =>
        LET Meta == registry.Meta IN
        /\ \A i \in 1..Len(Meta.exclude) :
              ~contains(keys(registry.columns), Meta.exclude[i])
        /\ \A i \in 1..Len(Meta.columns) :
              LET f == Meta.columns[i] IN
              (IsField(f) /\ ~contains(Meta.exclude, f)) =>
                  /\ contains(keys(registry.columns), f)
                  /\ dict_get(registry.columns, f) = ColumnDef("columns_for_model", f)

\* C15 witness: 'tld' is listed and excluded and is not in the result,
\* 'name' is listed and is
ExcludeBeatsIncludeWitness ==
    /\ ClassBuilt
    /\ registry.Meta = [model |-> "Country", columns |-> <<s_tld, s_name>>,
                        exclude |-> <<s_tld>>]
    /\ keys(registry.columns) = <<s_name>>

----------------------------------------------------------------------------
(* columns.py: constructing columns *)

\* the number of columns the model lets the user construct, besides those
\* of columns_for_model
MaxColumns == 2

\* lines 44-56 without line 56: the counter is not advanced
Column__init__counter_kept(cls, direction, counter) ==
    LET set == _set_direction(direction) IN
    IF set.raised
    THEN [raised |-> TRUE, self |-> None, creation_counter |-> counter]
    ELSE [raised |-> FALSE,
          self   |-> [cls |-> cls, _direction |-> set._direction,
                      creation_counter |-> counter],
          creation_counter |-> counter]

\* lines 44-56: Column.__init__ of class cls with the given direction, with
\* Column.creation_counter at counter: the column built, or the ValueError
\* of the direction setter, which leaves the counter as it was
Column__init__(cls, direction, counter) ==
    LET set == _set_direction(direction) IN
    IF set.raised
    THEN [raised |-> TRUE, self |-> None, creation_counter |-> counter]
    ELSE [raised |-> FALSE,
          self   |-> [cls |-> cls, _direction |-> set._direction,
                      creation_counter |-> counter],
          creation_counter |-> counter + 1]

\* the values passed as direction: the two constants, the two strings,
\* their spellings in other letter cases, another string, and values that
\* are not strings
DirectionValues ==
    {IntV(ASC), IntV(DESC), StrV(s_asc), StrV(s_desc),
     StrV(<<"A", "S", "C">>), StrV(<<"D", "e", "s", "c">>),
     StrV(s_name), IntV(3), None}

ColumnClasses == {"Column", "TextColumn", "NumberColumn"}

ColumnInit ==
    /\ data = <<>>
    /\ order_by = <<>>
    /\ snapshot = NoSnapshot
    /\ pc = "columns"
    /\ request = NoRequest
    /\ cell = NoCell
    /\ registry = NoRegistry
    /\ column = NoColumn
    /\ cache = NoCache
    /\ queries = NoQueries

\* cls(direction=value)
NewColumn ==
    /\ pc = "columns"
    /\ Len(column.constructed) < MaxColumns
           + (IF registry.built THEN Len(registry.field_list) ELSE 0)
    /\ \E cls \in ColumnClasses, value \in DirectionValues :
          LET made == Column__init__(cls, value, column.creation_counter) IN
          column' = [constructed |-> IF made.raised THEN column.constructed
                                     ELSE Append(column.constructed, made.self),
                     creation_counter |-> made.creation_counter,
                     last |-> [called |-> TRUE, direction |-> value,
                               raised |-> made.raised]]
    /\ UNCHANGED <<data, order_by, snapshot, pc, request, cell, registry, cache,
                   queries>>

\* lines 39-48 with the counter of every Column(...) call: the loop over the
\* fields of the model constructs a column, with the default direction, for
\* every field that is neither left out by the include list nor excluded;
\* the items made, and Column.creation_counter after the loop
RECURSIVE columns_for_model_field_list(_, _, _, _)
columns_for_model_field_list(fields, columns, exclude, counter) ==
    IF fields = <<>> THEN [field_list |-> <<>>, creation_counter |-> counter]
    ELSE IF \/ columns # <<>> /\ \A i \in 1..Len(columns) : columns[i] # Head(fields)
            \/ exclude # <<>> /\ \E i \in 1..Len(exclude) : exclude[i] = Head(fields)
         THEN columns_for_model_field_list(Tail(fields), columns, exclude, counter)
         ELSE LET made == Column__init__("Column", IntV(ASC), counter)
                  rest == columns_for_model_field_list(Tail(fields), columns,
                              exclude, made.creation_counter)
              IN [field_list |-> <<[key |-> Head(fields), value |-> made.self]>>
                                    \o rest.field_list,
                  creation_counter |-> rest.creation_counter]

\* the calls of columns_for_model: the fields of a model, the include list
\* and the exclude list
SynthesizeCalls ==
    {[fields  |-> <<s_id, s_name, s_population>>, columns |-> <<>>,
      exclude |-> <<>>],
     [fields  |-> <<s_id, s_name, s_population>>, columns |-> <<>>,
      exclude |-> <<s_id>>],
     [fields  |-> <<s_id, s_name, s_population>>, columns |-> <<s_population, s_name>>,
      exclude |-> <<>>],
     [fields  |-> <<s_id, s_name, s_population>>, columns |-> <<s_name>>,
      exclude |-> <<s_id>>]}

\* columns_for_model(model, columns, exclude), called when a table class
\* with a model is defined: registry holds the columns it constructed
ColumnsForModel ==
    /\ pc = "columns"
    /\ ~registry.built
    /\ \E call \in SynthesizeCalls :
          LET made == columns_for_model_field_list(call.fields, call.columns,
                          call.exclude, column.creation_counter)
              selfs == [i \in 1..Len(made.field_list) |-> made.field_list[i].value]
          IN /\ column' = [constructed |-> column.constructed \o selfs,
                           creation_counter |-> made.creation_counter,
                           last |-> [called |-> TRUE, direction |-> IntV(ASC),
                                     raised |-> FALSE]]
             /\ registry' = [built |-> TRUE, field_list |-> made.field_list]
    /\ UNCHANGED <<data, order_by, snapshot, pc, request, cell, cache, queries>>

ColumnNext == NewColumn \/ ColumnsForModel

ColumnSpec == ColumnInit /\ [][ColumnNext]_vars

\* the spellings of "asc" and of "desc" in any letter case
AscSpellings  == {StrV(s_asc), StrV(<<"A", "S", "C">>)}
DescSpellings == {StrV(s_desc), StrV(<<"D", "e", "s", "c">>)}

\* C16: the strings "asc" and "desc" in any letter case give the ascending
\* and the descending direction; every other value, the two direction
\* constants aside, fails with the error; no constructed column holds a
\* direction other than ascending or descending.
DirectionIsValidated ==
    /\ \A i \in 1..Len(column.constructed) :
          column.constructed[i]._direction \in {IntV(ASC), IntV(DESC)}
    /\ column.last.called =>
          LET value == column.last.direction
              self  == column.constructed[Len(column.constructed)]
          IN CASE value \in AscSpellings ->
                    ~column.last.raised /\ self._direction = IntV(ASC)
               [] value \in DescSpellings ->
                    ~column.last.raised /\ self._direction = IntV(DESC)
               [] value \in {IntV(ASC), IntV(DESC)} ->
                    ~column.last.raised /\ self._direction = value
               [] OTHER -> column.last.raised

\* C16: Column(direction=3) was constructed and holds the direction 3
InvalidDirectionIsHeld ==
    /\ column.last.called
    /\ column.last.direction = IntV(3)
    /\ ~column.last.raised
    /\ column.constructed[Len(column.constructed)]._direction = IntV(3)

\* C16: Column(direction='ASC') raised
UpperCaseDirectionRaises ==
    /\ column.last.called
    /\ column.last.direction = StrV(<<"A", "S", "C">>)
    /\ column.last.raised

----------------------------------------------------------------------------
(* models.py: the model-backed table over a lazy queryset, its caches and *)
(* the queries it issues                                                  *)

\* the number of snapshot builds, and of objects (bound columns, bound
\* rows) the model lets a table make
MaxBuilds == 2
MaxObjects == 3

\* The table object, self: queryset (the source), order_by, _snapshot, and
\*   cache._columns  the cached bound columns: the identity of the objects,
\*                   0 when the cache is empty
\*   cache._length   ModelRows._length, -1 for None
\*   cache.ids       the identity given to the last object made
\*   cache.builds    the calls of _build_snapshot so far
\*   cache.op, out   the last operation on the table and what it returned
\*   cache.read      rows or their length have been read
\*   queries.count, iter   the count() queries and the materializations
\*                   issued on the source
\*   queries.queryset, snapshot   _result_cache is filled, in the queryset
\*                   passed in and in the ordered snapshot made from it
Table(queryset, ob, snap, c, q) ==
    [queryset |-> queryset, order_by |-> ob, _snapshot |-> snap, cache |-> c,
     queries |-> q]

\* Columns._reset (base.py): the cached bound columns are dropped
Columns_reset_kept(self) == self

Columns_reset(self) == [self EXCEPT !.cache._columns = 0]

\* lines 111-112 with the length left in place
ModelRows_reset_kept(self) == self

\* lines 111-112: ModelRows._reset
ModelRows_reset(self) == [self EXCEPT !.cache._length = -1]

\* lines 228-243 without lines 234-235: the caches are left as they are
ModelTable_build_snapshot_self_no_reset(self) ==
    [self EXCEPT
        !._snapshot = ModelTable_build_snapshot(ModelColumns, self.queryset,
                                                self.order_by),
        !.cache.builds = @ + 1,
        !.queries.snapshot = FALSE]

\* lines 228-243 on the table object: the caches are reset, the snapshot is
\* the queryset, with the native ordering attached when there is one; an
\* ordered queryset is a new object, nothing of which is loaded
ModelTable_build_snapshot_self(self) ==
    LET reset == ModelRows_reset(Columns_reset(self)) IN
    [reset EXCEPT
        !._snapshot = ModelTable_build_snapshot(ModelColumns, self.queryset,
                                                self.order_by),
        !.cache.builds = @ + 1,
        !.queries.snapshot = FALSE]

\* BaseTable.data (base.py): the snapshot, built when there is none
BaseTable_data(self) ==
    IF self._snapshot.built THEN self ELSE ModelTable_build_snapshot_self(self)

\* lines 176-190 with `if not data` in place of `if data == []`: the truth
\* test loads the queryset
ModelTable__init__truth_test(queryset, ob) ==
    Table(queryset, ob, NoSnapshot, [NoCache EXCEPT !.op = "new"],
          [NoQueries EXCEPT !.iter = 1, !.queryset = TRUE])

\* lines 176-190, data being a queryset: it is compared with [], which
\* does not load it, and kept as self.queryset; BaseTable.__init__ (base.py)
\* stores the ordering; no snapshot is built
ModelTable__init__(queryset, ob) ==
    Table(queryset, ob, NoSnapshot, [NoCache EXCEPT !.op = "new"], NoQueries)

\* iterating the snapshot: the queryset that is the snapshot is loaded
\* unless its _result_cache is filled; without an ordering the snapshot is
\* the queryset passed in
Load(self) ==
    IF self.order_by = <<>>
    THEN IF self.queries.queryset THEN self
         ELSE [self EXCEPT !.queries.iter = @ + 1, !.queries.queryset = TRUE]
    ELSE IF self.queries.snapshot THEN self
         ELSE [self EXCEPT !.queries.iter = @ + 1, !.queries.snapshot = TRUE]

\* Rows.__iter__ (base.py): a bound row is made for every record of
\* table.data; the rows are not cached, each pass makes new objects
Rows__iter__(self) ==
    LET t == Load(BaseTable_data(self)) IN
    [t EXCEPT !.cache.ids = @ + 1,
              !.cache.op = "rows",
              !.cache.read = TRUE,
              !.cache.out = [values  |-> t._snapshot.rows,
                             objects |-> t.cache.ids + 1]]

\* Columns.__iter__ (base.py): the bound columns are made when the cache
\* is empty, and served from it otherwise
Columns__iter__(self) ==
    LET t == BaseTable_data(self)
        spawn == t.cache._columns = 0
        made == IF spawn THEN t.cache.ids + 1 ELSE t.cache._columns
    IN [t EXCEPT !.cache.ids = IF spawn THEN made ELSE @,
                 !.cache._columns = made,
                 !.cache.op = "columns",
                 !.cache.out = [objects |-> made]]

\* lines 114-129: ModelRows.__len__; a queryset offers count(), and the
\* count is issued on a copy of the snapshot, which loads nothing
ModelRows__len__(self) ==
    IF self.cache._length = -1
    THEN LET t == BaseTable_data(self)
             n == Len(t._snapshot.rows)
         IN [t EXCEPT !.queries.count = @ + 1,
                      !.cache._length = n,
                      !.cache.op = "len",
                      !.cache.read = TRUE,
                      !.cache.out = [value |-> n]]
    ELSE [self EXCEPT !.cache.op = "len",
                      !.cache.read = TRUE,
                      !.cache.out = [value |-> self.cache._length]]

\* the ordering tokens of this table, and the assignments of order_by
TableTokens == {s_population, Minus(s_name)}

TableRequests == Requests(TableTokens)

ModelTable_stored_order_by ==
    {_set_order_by(ModelTable, v) : v \in TableRequests}

\* the table object of the state
Self == Table(data, order_by, snapshot, cache, queries)

\* the state takes the table object t
Becomes(t) ==
    /\ data' = t.queryset
    /\ order_by' = t.order_by
    /\ snapshot' = t._snapshot
    /\ cache' = t.cache
    /\ queries' = t.queries

TableInit ==
    /\ data = <<netherlands, germany>>
    /\ order_by = <<>>
    /\ snapshot = NoSnapshot
    /\ pc = "new"
    /\ request = NoRequest
    /\ cell = NoCell
    /\ registry = NoRegistry
    /\ column = NoColumn
    /\ cache = NoCache
    /\ queries = NoQueries

\* table = CountryTable(queryset, order_by=...)
NewTable ==
    /\ pc = "new"
    /\ \E stored \in ModelTable_stored_order_by :
          Becomes(ModelTable__init__(data, stored))
    /\ pc' = "table"
    /\ UNCHANGED <<request, cell, registry, column>>

\* table.order_by = value
TableSetOrderBy ==
    /\ pc = "table"
    /\ \E stored \in ModelTable_stored_order_by :
          Becomes([Self EXCEPT !.order_by = stored,
                               !._snapshot = _reset_snapshot(snapshot),
                               !.cache.op = "order_by",
                               !.cache.out = <<>>])
    /\ UNCHANGED <<pc, request, cell, registry, column>>

\* table.update()
TableUpdate ==
    /\ pc = "table"
    /\ Becomes([Self EXCEPT !._snapshot = _reset_snapshot(snapshot),
                            !.cache.op = "update",
                            !.cache.out = <<>>])
    /\ UNCHANGED <<pc, request, cell, registry, column>>

\* the bounds of the model: a read that would build or make an object
\* beyond them is left out
WithinBounds(t) == t.cache.builds <= MaxBuilds /\ t.cache.ids <= MaxObjects

\* list(table.rows)
IterRows ==
    /\ pc = "table"
    /\ WithinBounds(Rows__iter__(Self))
    /\ Becomes(Rows__iter__(Self))
    /\ UNCHANGED <<pc, request, cell, registry, column>>

\* list(table.columns)
IterColumns ==
    /\ pc = "table"
    /\ WithinBounds(Columns__iter__(Self))
    /\ Becomes(Columns__iter__(Self))
    /\ UNCHANGED <<pc, request, cell, registry, column>>

\* len(table.rows)
LenRows ==
    /\ pc = "table"
    /\ WithinBounds(ModelRows__len__(Self))
    /\ Becomes(ModelRows__len__(Self))
    /\ UNCHANGED <<pc, request, cell, registry, column>>

TableNext ==
    NewTable \/ TableSetOrderBy \/ TableUpdate \/ IterRows \/ IterColumns \/ LenRows

TableSpec == TableInit /\ [][TableNext]_vars

----------------------------------------------------------------------------
(* Properties of the caches and of the queries *)

\* C18: two reads of the rows, or of the columns, with nothing in between
\* return the same values in the same order and the same cached column
\* objects, and no snapshot is built between them; a read after an ordering
\* change or an update() builds the snapshot, which resets the caches, so
\* the objects it returns are new ones, none of those that existed before.
CachesHoldUntilReset ==
    [][/\ (cache.op = "rows" /\ cache'.op = "rows") =>
              /\ cache'.out.values = cache.out.values
              /\ cache'.builds = cache.builds
              /\ cache'._columns = cache._columns
              /\ snapshot' = snapshot
       /\ (cache.op = "columns" /\ cache'.op = "columns") =>
              /\ cache'.out = cache.out
              /\ cache'.builds = cache.builds
       /\ (pc = "table" /\ ~snapshot.built /\ cache'.op \in {"rows", "columns"}) =>
              /\ cache'.builds = cache.builds + 1
              /\ cache'.out.objects > cache.ids
       /\ cache'.builds # cache.builds => cache'._columns \notin 1..cache.ids
       /\ cache'.op = "columns" => cache'.out.objects = cache'._columns
      ]_vars

\* C18 witness: the columns read after the second build of the snapshot are
\* the cached objects, and not the ones made first
CachesHoldUntilResetWitness ==
    /\ pc = "table"
    /\ cache.op = "columns"
    /\ cache.builds = 2
    /\ cache.out.objects = cache._columns
    /\ cache.out.objects > 1

\* C19: from the construction of the table over a queryset, with an initial
\* ordering or without, until the rows or their length are read for the
\* first time, no count() is issued and nothing is loaded.
NoQueryBeforeFirstRead ==
    (pc = "table" /\ ~cache.read) =>
        /\ queries.count = 0
        /\ queries.iter = 0
        /\ ~queries.queryset
        /\ ~queries.snapshot

\* C19 witness: the table was just constructed with an initial ordering
NoQueryBeforeFirstReadWitness ==
    /\ pc = "table"
    /\ cache.op = "new"
    /\ order_by # <<>>
    /\ ~cache.read
    /\ queries = NoQueries

\* C20: a len() that finds no cached length issues one count() and loads
\* nothing; a len() that finds one returns it and issues nothing; a build
\* of the snapshot clears the cached length; so there is at most one
\* count() per build.
CountOncePerBuild ==
    [][/\ (pc = "table" /\ cache'.op = "len") =>
              IF cache._length = -1
              THEN /\ queries'.count = queries.count + 1
                   /\ queries'.iter = queries.iter
                   /\ cache'.out.value = Len(data)
                   /\ cache'._length = Len(data)
              ELSE /\ queries' = queries
                   /\ cache'.out.value = cache._length
                   /\ cache'.builds = cache.builds
       /\ (cache'.builds # cache.builds /\ cache'.op # "len") => cache'._length = -1
       /\ queries'.count <= cache'.builds
      ]_vars

\* C20 witness: the second count() was issued after the second build, and
\* nothing was ever loaded
CountOncePerBuildWitness ==
    /\ pc = "table"
    /\ cache.op = "len"
    /\ queries.count = 2
    /\ cache.builds = 2
    /\ queries.iter = 0
    /\ cache.out.value = Len(data)

----------------------------------------------------------------------------
(* models.py: ModelTable.__init__ and its data argument *)

\* The data argument of ModelTable(data, ...): omitted or None, a list, a
\* model class, a queryset
DataArgument(kind, model, val) == [kind |-> kind, model |-> model, val |-> val]

NoData == DataArgument("unset", "", <<>>)

DataNone == DataArgument("None", "", <<>>)

DataList(records) == DataArgument("list", "", records)

DataModel(model) == DataArgument("model", model, <<>>)

DataQueryset(records) == DataArgument("queryset", "", records)

\* line 184: _default_manager.none(), the queryset that holds no record
Manager_none(objects) == <<>>

\* line 186: _default_manager.all(), the queryset of every record
Manager_all(objects) == objects

\* lines 176-188: self.queryset for the data passed in, objects being the
\* records of the default manager of the model; an empty list is taken as
\* None; a queryset is not equal to [] and has no _default_manager
ModelTable__init__queryset(Meta, arg, objects) ==
    LET d == IF arg.kind = "list" /\ arg.val = <<>> THEN DataNone ELSE arg IN
    IF d.kind = "None"
    THEN IF Meta.model = ""
         THEN [raised |-> "ValueError", queryset |-> <<>>]
         ELSE [raised |-> "", queryset |-> Manager_none(objects)]
    ELSE IF d.kind = "model"
         THEN [raised |-> "", queryset |-> Manager_all(objects)]
         ELSE [raised |-> "", queryset |-> d.val]

\* Country.objects.filter(name=...)
filter_name(objects, name) ==
    SelectSeq(objects, LAMBDA r : r.attrs[s_name] = StrV(name))

s_france == <<"f", "r", "a", "n", "c", "e">>

\* the data arguments of the tests: none, [], the model, querysets of the
\* model and a list of records
DataArguments(objects) ==
    {DataNone, DataList(<<>>), DataModel("Country"), DataList(<<france>>),
     DataQueryset(objects), DataQueryset(filter_name(objects, s_france)),
     DataQueryset(filter_name(objects, s_invalid))}

\* data holds the records of Country's default manager, registry the Meta
\* of the table class
ConstructInit ==
    /\ data \in Querysets
    /\ registry \in {[built |-> TRUE, Meta |-> [model |-> m]] :
                        m \in {"", "Country"}}
    /\ order_by = <<>>
    /\ snapshot = NoSnapshot
    /\ pc = "new"
    /\ request = NoData
    /\ cell = NoCell
    /\ column = NoColumn
    /\ cache = NoCache
    /\ queries = NoQueries

\* table = CountryTable(arg, order_by=...), or CountryTable(order_by=...)
Construct ==
    /\ pc = "new"
    /\ \E arg \in DataArguments(data), stored \in ModelTable_stored_order_by :
          LET r == ModelTable__init__queryset(registry.Meta, arg, data) IN
          /\ request' = arg
          /\ cell' = [read |-> FALSE, raised |-> r.raised,
                      queryset |-> r.queryset]
          /\ order_by' = IF r.raised = "" THEN stored ELSE order_by
          /\ pc' = IF r.raised = "" THEN "table" ELSE "raised"
    /\ UNCHANGED <<data, snapshot, registry, column, cache, queries>>

\* list(table.rows): the snapshot is built from self.queryset
ReadRows ==
    /\ pc = "table"
    /\ snapshot' = ModelTable_build_snapshot(ModelColumns, cell.queryset,
                                              order_by)
    /\ cell' = [cell EXCEPT !.read = TRUE]
    /\ pc' = "rows"
    /\ UNCHANGED <<data, order_by, request, registry, column, cache, queries>>

ConstructNext == Construct \/ ReadRows

ConstructSpec == ConstructInit /\ [][ConstructNext]_vars

\* the table was constructed without data: omitted, None or []
WithoutData ==
    \/ request.kind = "None"
    \/ request.kind = "list" /\ request.val = <<>>

SameRecords(a, b) ==
    /\ Len(a) = Len(b)
    /\ \A r \in {a[i] : i \in 1..Len(a)} :
          Cardinality({i \in 1..Len(a) : a[i] = r})
              = Cardinality({i \in 1..Len(b) : b[i] = r})

\* C21: the rows of a table of a model that was constructed without data
\* (omitted, None or []) are the records of the default manager of the
\* model.
NoDataMeansDefaultManager ==
    (pc = "rows" /\ WithoutData /\ registry.Meta.model # "") =>
        SameRecords(snapshot.rows, data)

\* C21: such a table has no rows, whatever the default manager holds; the
\* records are served when the model class is passed as data
NoDataMeansNoRecords ==
    /\ (pc = "rows" /\ WithoutData) => snapshot.rows = <<>>
    /\ (pc = "rows" /\ request.kind = "model") => snapshot.rows = data

\* C21: CountryTable() over four countries, read
NoDataOverFourCountries ==
    /\ pc = "rows"
    /\ request = DataNone
    /\ Len(data) = 4
    /\ snapshot.rows = <<>>

----------------------------------------------------------------------------
(* Properties of the creation counter *)

\* the columns constructed by columns_for_model
Synthesized ==
    IF registry.built
    THEN {registry.field_list[i].value : i \in 1..Len(registry.field_list)}
    ELSE {}

\* C22: the creation counter is strictly increasing over all columns
\* constructed, of whatever class and whether constructed by the user or
\* by columns_for_model: a column constructed later holds a greater counter
\* than every column constructed before it, no two columns share a counter,
\* and the next column will get a counter greater than all of them.
CreationCounterStrictlyIncreasing ==
    /\ \A i, j \in 1..Len(column.constructed) :
          i < j => column.constructed[i].creation_counter
                       < column.constructed[j].creation_counter
    /\ \A i \in 1..Len(column.constructed) :
          column.constructed[i].creation_counter < column.creation_counter
    /\ \A c \in Synthesized :
          \E i \in 1..Len(column.constructed) : column.constructed[i] = c

\* C22 witness: a NumberColumn of the user, then two columns of
\* columns_for_model, then a TextColumn of the user
CreationCounterStrictlyIncreasingWitness ==
    /\ Len(column.constructed) >= 4
    /\ column.constructed[1].cls = "NumberColumn"
    /\ column.constructed[2] \in Synthesized
    /\ column.constructed[3] \in Synthesized
    /\ column.constructed[Len(column.constructed)].cls = "TextColumn"
    /\ column.constructed[Len(column.constructed)].creation_counter = 3
    /\ column.creation_counter = 4

----------------------------------------------------------------------------
(* Properties of the defaults and of the source of the in-memory table *)

\* the record the caller passed of which r is the row
SourceRecord(r) ==
    cell.source[CHOOSE i \in 1..Len(cell.source) : cell.source[i][s_id] = r[s_id]]

\* the default of a column for a record: the literal, or what the callable
\* default returns for it
DefaultOf(name, record) ==
    LET default == MemoryColumns[name].default IN
    IF callable(default) THEN Resolved(get(record, default.reads), record)
    ELSE default

\* the value a record has under a column: the default when its source
\* value is None or missing
Defaulted(name, record) ==
    LET v == get(record, src_accessor(MemoryColumns, name)) IN
    IF v = None THEN DefaultOf(name, record) ELSE Resolved(v, record)

\* the n-th key of the ordering sorts descending: the '-' prefix reverses
\* the default direction of the column
KeyDescending(n) ==
    TokenPrefixed(order_by[n])
        # (MemoryColumns[TokenName(order_by[n])].direction = IntV(DESC))

KeyCmp(n, x, y) ==
    LET c == cmp(Defaulted(TokenName(order_by[n]), SourceRecord(x)),
                 Defaulted(TokenName(order_by[n]), SourceRecord(y)))
    IN IF KeyDescending(n) THEN -c ELSE c

\* x is not after y by the ordering keys over the defaulted values
NotAfter(x, y) ==
    \/ \A n \in 1..Len(order_by) : KeyCmp(n, x, y) = 0
    \/ \E n \in 1..Len(order_by) :
          /\ KeyCmp(n, x, y) < 0
          /\ \A k \in 1..(n - 1) : KeyCmp(k, x, y) = 0

\* C23: the rebuild fills the default of every column into every record
\* before it sorts: every row of the snapshot holds, under every column,
\* the default where the source value is None, and the rows are in the
\* order of the defaulted values, so that a record whose source value for
\* an ordering key is None is positioned by the column default.
DefaultsSortedAsValues ==
    (pc = "table" /\ snapshot.built) =>
        /\ \A i \in 1..Len(snapshot.rows) :
              \A n \in 1..Len(MemoryColumnNames) :
                 LET name == MemoryColumnNames[n]
                     acc  == src_accessor(MemoryColumns, name)
                     v    == get(SourceRecord(snapshot.rows[i]), acc)
                 IN get(snapshot.rows[i], acc)
                        = IF v = None
                          THEN DefaultOf(name, SourceRecord(snapshot.rows[i]))
                          ELSE v
        /\ \A i, j \in 1..Len(snapshot.rows) :
              i < j => NotAfter(snapshot.rows[i], snapshot.rows[j])

\* C23 witness: ordered by 'system' and then '-population' (ascending, the
\* column being descending by default), the record that has neither is
\* last: its literal default puts it with the republics, after the
\* monarchy, and its callable default, 2, after the population 1
DefaultsSortedAsValuesWitness ==
    /\ pc = "table"
    /\ snapshot.built
    /\ Len(cell.source) = 3
    /\ cell.source[2][s_population] = None
    /\ cell.source[2][s_system] = None
    /\ order_by = <<s_system, Minus(s_population)>>
    /\ Ids(snapshot.rows) = <<1, 3, 2>>

\* C25: rebuilding the snapshot leaves the source of the caller unchanged:
\* after any rebuilds and ordering changes the source list has the same
\* records in the same order, each with the same keys and values as when
\* the table was built.
SourceUnchanged ==
    pc = "table" => data = cell.source

\* C25: what the rebuilds leave as it was: the records of the source list
\* and their order, and every value that was not None
SourceOrderAndValuesKept ==
    pc = "table" =>
        /\ Len(data) = Len(cell.source)
        /\ \A i \in 1..Len(data) :
              \A k \in DOMAIN cell.source[i] :
                 /\ k \in DOMAIN data[i]
                 /\ cell.source[i][k] # None => data[i][k] = cell.source[i][k]

\* C25: a record of the source that had no "system" key has one after the
\* rows were read, holding the default of the column
SourceRecordGainsDefault ==
    /\ pc = "table"
    /\ snapshot.built
    /\ Len(cell.source) = 3
    /\ s_system \notin DOMAIN cell.source[2]
    /\ s_system \in DOMAIN data[2]
    /\ data[2][s_system] = StrV(s_republic)

----------------------------------------------------------------------------
(* Properties of the native ordering of the model-backed table *)

\* the argument the native order_by call is to get for the n-th key: the
\* accessor path of the column, with '-' when the key sorts descending,
\* which is when the '-' of the token and the default direction of the
\* column differ
NativeArgument(n) ==
    LET path == PathOf(TokenName(order_by[n]))
        desc == TokenPrefixed(order_by[n]) # DefaultDescending(n)
    IN IF desc THEN <<"-">> \o path ELSE path

\* C24: the rebuild leaves the ordering to the source: with an ordering
\* there is one order_by call on the queryset, whose arguments are the
\* accessor paths of the keys, in key order, each with '-' exactly when the
\* key sorts descending; with an empty ordering there is no such call; the
\* snapshot is the queryset, its records in the order the source gives.
OrderingDelegatedToSource ==
    (pc = "table" /\ snapshot.built) =>
        /\ snapshot.rows = data
        /\ Len(snapshot.ordering) = Len(order_by)
        /\ \A n \in 1..Len(order_by) : snapshot.ordering[n] = NativeArgument(n)

\* C24 witness: under ('-domain', 'name') the call is order_by('-tld',
\* '-name'): the path of domain, and name descending by default
OrderingDelegatedToSourceWitness ==
    /\ pc = "table"
    /\ snapshot.built
    /\ order_by = <<Minus(s_domain), s_name>>
    /\ snapshot.ordering = <<Minus(s_tld), Minus(s_name)>>
    /\ snapshot.rows = data

----------------------------------------------------------------------------
(* Properties of the entries of the registry *)

\* the values of an ordered dict
values(d) == {d[i].value : i \in 1..Len(d)}

\* C26: every entry of the registry columns_for_model returns, and of the
\* base_columns the table class is built with, is a column definition and
\* never None, whatever the fields of the model, the include list and the
\* exclude list are, include lists that name no field of the model among
\* them.
RegistryEntriesAreColumns ==
    ClassBuilt =>
        /\ \A v \in values(registry.columns) : v # None /\ v.tag = "Column"
        /\ \A v \in values(registry.base_columns) : v # None /\ v.tag = "Column"

\* C26: the class of the City model with Meta.columns = ['invalid_field',
\* 'name'] and nothing declared has the entry None under 'invalid_field',
\* in what columns_for_model returned and in base_columns
NullEntryInBaseColumns ==
    /\ ClassBuilt
    /\ registry.Meta = [model |-> "City", columns |-> <<s_invalid_field, s_name>>,
                        exclude |-> <<>>]
    /\ registry.attrs = <<>>
    /\ registry.parent = <<>>
    /\ keys(registry.columns) = <<s_invalid_field, s_name>>
    /\ registry.columns[1].value = None
    /\ registry.base_columns[1] = item(s_invalid_field, None)
    /\ registry.base_columns[2].value.tag = "Column"

====
